---------------------------- MODULE Spec2Model ----------------------------
(***************************************************************************)
(* The expenses backend: two REST resources (Task, Spend) served by        *)
(* ModelViewSets through a DefaultRouter, and account registration through *)
(* RegisterSerializer.  One request is handled per step.                   *)
(***************************************************************************)
EXTENDS Integers, Sequences, FiniteSets, TLC

(* ------------------------------ bounds --------------------------------- *)

\* Rows (Task, Spend and User together) the explored runs ever create.
MaxCreated == 2

(* ------------------------- wire-level vocabulary ------------------------ *)

Methods == {"GET", "POST", "PUT", "PATCH", "DELETE"}
Values == {"x", "y"}
OptionalValues == {"y"}
Usernames == {"ann", "bob", "\\uff41nn"}
Emails == {"a@x.org", "a@X.ORG"}
Passwords == {"pw1", "pw2"}
Anonymous == "AnonymousUser"
NoBody == [k \in {} |-> ""]
Pks == 1..MaxCreated

(* ------------------------------ models.py ------------------------------ *)
\* Task and Spend are opaque records with an implicit integer identity; one
\* attribute without a default and one with a default stand for their columns.

Models == {"Task", "Spend"}
RequiredFields(model) == {"required_field"}
OptionalFields(model) == {"optional_field"}
Fields(model) == RequiredFields(model) \cup OptionalFields(model)
Default(model, f) == ""

\* django.contrib.auth.models.User: the columns RegisterSerializer names.
UserFields == {"username", "email", "password"}
UserUnique == {"username"}
UserBlank == {"email"}

\* The identity facility stores a salted hash, never the raw password.
make_password(raw) == "pbkdf2_sha256$" \o raw
check_password(raw, encoded) == encoded = make_password(raw)

\* BaseUserManager.normalize_email lower-cases the domain part of the address.
normalize_email(email) == IF email = "a@X.ORG" THEN "a@x.org" ELSE email

\* AbstractBaseUser.normalize_username puts the name in NFKC form: the
\* full-width spelling of "ann" becomes "ann".
normalize_username(username) == IF username = "\\uff41nn" THEN "ann" ELSE username

\* UserManager.create_user: normalise email and username, hash the password and
\* insert the row; the table's unique index on username refuses a duplicate.
create_user(st, username, email, password) ==
    LET user == [username |-> normalize_username(username),
                 email |-> normalize_email(email),
                 password |-> make_password(password)]
    IN  IF \E i \in 1..Len(st.users) : st.users[i].username = user.username
        THEN [error |-> "IntegrityError", st |-> st, user |-> user]
        ELSE [error |-> "", st |-> [st EXCEPT !.users = Append(@, user)],
              user |-> user]

(* ---------------------------- serializers.py --------------------------- *)

\* Mutant: TaskSerializer with an explicit field list that forgets a column.
TaskSerializer_FieldsSubset ==
    [name |-> "TaskSerializer", model |-> "Task", fields |-> {"id", "required_field"},
     declared |-> {}, write_only |-> {}]

\* A ModelSerializer class: Meta.model, Meta.fields, the fields the class body
\* declares itself, and those of them declared write_only.
TaskSerializer ==
    [name |-> "TaskSerializer", model |-> "Task", fields |-> {"__all__"},
     declared |-> {}, write_only |-> {}]

\* Mutant: SpendSerializer copied from TaskSerializer with Meta.model left as Task.
SpendSerializer_ModelTask ==
    [name |-> "SpendSerializer", model |-> "Task", fields |-> {"__all__"},
     declared |-> {}, write_only |-> {}]

SpendSerializer ==
    [name |-> "SpendSerializer", model |-> "Spend", fields |-> {"__all__"},
     declared |-> {}, write_only |-> {}]

\* Mutant: username declared in the class body, which drops its UniqueValidator.
RegisterSerializer_DeclaredUsername ==
    [name |-> "RegisterSerializer", model |-> "User",
     fields |-> {"username", "email", "password"},
     declared |-> {"username", "password"}, write_only |-> {"password"}]

\* Mutant: password declared without write_only=True.
RegisterSerializer_PasswordReadable ==
    [name |-> "RegisterSerializer", model |-> "User",
     fields |-> {"username", "email", "password"},
     declared |-> {"password"}, write_only |-> {}]

RegisterSerializer ==
    [name |-> "RegisterSerializer", model |-> "User",
     fields |-> {"username", "email", "password"},
     declared |-> {"password"}, write_only |-> {"password"}]

\* The serializer's fields: '__all__' is the identity plus every column.
serializer_fields(ser) ==
    IF ser.fields = {"__all__"} THEN {"id"} \cup Fields(ser.model) ELSE ser.fields

\* The auto-created identity is read-only: input never sets it.
read_only_fields(ser) == serializer_fields(ser) \cap {"id"}

writable_fields(ser) == serializer_fields(ser) \ read_only_fields(ser)

required_fields(ser) ==
    IF ser.model = "User"
    THEN writable_fields(ser) \ (UserBlank \ ser.declared)
    ELSE writable_fields(ser) \cap RequiredFields(ser.model)

\* Output of a serializer for one stored row: write-only fields are left out.
to_representation(ser, pk, row) ==
    [f \in serializer_fields(ser) \ ser.write_only |->
        IF f = "id" THEN pk ELSE row[f]]

\* Input kept after validation: writable fields only, unknown keys dropped.
validated_data(ser, data) ==
    [f \in DOMAIN data \cap writable_fields(ser) |-> data[f]]

\* Required-field check of run_validation; a partial update skips it.
required_errors(ser, data, partial) ==
    IF partial THEN {}
    ELSE {<<f, "required">> : f \in required_fields(ser) \ DOMAIN data}

\* UniqueValidator, which ModelSerializer derives from the model's unique columns
\* for the fields it builds itself (a declared field gets none).
unique_errors(ser, data, st) ==
    IF ser.model # "User" THEN {}
    ELSE {<<f, "unique">> : f \in
             {g \in (UserUnique \cap DOMAIN data \cap writable_fields(ser)) \ ser.declared :
                 \E i \in 1..Len(st.users) : st.users[i][g] = data[g]}}

errors(ser, data, partial, st) ==
    required_errors(ser, data, partial) \cup unique_errors(ser, data, st)

is_valid(ser, data, partial, st) == errors(ser, data, partial, st) = {}

\* Mutant: create_user called without the email argument.
RegisterSerializer_create_DropsEmail(vd, st) ==
    create_user(st, vd["username"], "", vd["password"])

\* RegisterSerializer.create: User.objects.create_user(...)
RegisterSerializer_create(vd, st) ==
    create_user(st, vd["username"],
                IF "email" \in DOMAIN vd THEN vd["email"] ELSE "",
                vd["password"])

\* ModelSerializer.create: a new row of the serializer's model.
ModelSerializer_create(ser, vd) ==
    [f \in Fields(ser.model) |->
        IF f \in DOMAIN vd THEN vd[f] ELSE Default(ser.model, f)]

\* ModelSerializer.update: set the validated attributes on the instance.
ModelSerializer_update(row, vd) ==
    [f \in DOMAIN row |-> IF f \in DOMAIN vd THEN vd[f] ELSE row[f]]

(* ------------------------------- views.py ------------------------------ *)

\* Neither view set declares permission_classes: the framework default applies.
DefaultPermissionClasses == {"AllowAny"}

\* Mutant: TaskViewSet.queryset = Spend.objects.all()
TaskViewSet_QuerysetSpend ==
    [name |-> "TaskViewSet", queryset |-> "Spend",
     serializer_class |-> TaskSerializer,
     permission_classes |-> DefaultPermissionClasses]

\* Mutant: TaskViewSet.serializer_class = SpendSerializer
TaskViewSet_SerializerSpend ==
    [name |-> "TaskViewSet", queryset |-> "Task",
     serializer_class |-> SpendSerializer,
     permission_classes |-> DefaultPermissionClasses]

TaskViewSet ==
    [name |-> "TaskViewSet", queryset |-> "Task",
     serializer_class |-> TaskSerializer,
     permission_classes |-> DefaultPermissionClasses]

\* Mutant: SpendViewSet with permission_classes = [IsAuthenticated]
SpendViewSet_IsAuthenticated ==
    [name |-> "SpendViewSet", queryset |-> "Spend",
     serializer_class |-> SpendSerializer,
     permission_classes |-> {"IsAuthenticated"}]

SpendViewSet ==
    [name |-> "SpendViewSet", queryset |-> "Spend",
     serializer_class |-> SpendSerializer,
     permission_classes |-> DefaultPermissionClasses]

\* The three auth views urls.py imports from views.py.
RegisterView == [name |-> "RegisterView", serializer_class |-> RegisterSerializer]
LoginView == [name |-> "LoginView"]
LogoutView == [name |-> "LogoutView"]

(* -------------------------------- urls.py ------------------------------ *)

\* Mutant: router.register(r'tasks', SpendViewSet)
router_TasksToSpendViewSet ==
    << [prefix |-> "tasks", viewset |-> SpendViewSet],
       [prefix |-> "spends", viewset |-> SpendViewSet] >>

\* router = DefaultRouter(); router.register(prefix, viewset)
router ==
    << [prefix |-> "tasks", viewset |-> TaskViewSet],
       [prefix |-> "spends", viewset |-> SpendViewSet] >>

\* DefaultRouter also serves an index of the registered prefixes at the root.
APIRootView == [name |-> "APIRootView"]

\* The routes a router generates per registered prefix.
ListRoute == [GET |-> "list", POST |-> "create"]
DetailRoute ==
    [GET |-> "retrieve", PUT |-> "update", PATCH |-> "partial_update",
     DELETE |-> "destroy"]

\* Entries 2..4 of urlpatterns (entry 1 includes router.urls).
urlpatterns ==
    << [route |-> "register", view |-> RegisterView],
       [route |-> "login", view |-> LoginView],
       [route |-> "logout", view |-> LogoutView] >>

NoMatch == [kind |-> "none"]

\* URL resolution: the first pattern that matches the path wins.
resolve(path) ==
    LET hits == {i \in 1..Len(router) : router[i].prefix = path.prefix}
        plain == {i \in 1..Len(urlpatterns) :
                     urlpatterns[i].route = path.prefix /\ path.pk = << >>}
    IN  IF path.prefix = "" /\ path.pk = << >>
        THEN [kind |-> "view", view |-> APIRootView, mapping |-> [GET |-> "get"]]
        ELSE IF hits # {}
        THEN LET i == CHOOSE j \in hits : \A k \in hits : j <= k
             IN  [kind |-> "viewset", view |-> router[i].viewset,
                  mapping |-> IF path.pk = << >> THEN ListRoute ELSE DetailRoute]
        ELSE IF plain # {}
        THEN LET i == CHOOSE j \in plain : \A k \in plain : j <= k
             IN  [kind |-> "view", view |-> urlpatterns[i].view,
                  mapping |-> [POST |-> "post"]]
        ELSE NoMatch

\* View dispatch: the handler bound to the method, if any.
handler(method, path) ==
    LET m == resolve(path)
    IN  IF m.kind = "none" THEN [view |-> "", action |-> "not_found"]
        ELSE IF method \in DOMAIN m.mapping
        THEN [view |-> m.view.name, action |-> m.mapping[method]]
        ELSE [view |-> m.view.name, action |-> "method_not_allowed"]


(* ------------------------------ the state ------------------------------ *)

VARIABLES
    db,        \* db[model]: the table, primary key -> row
    seq,       \* seq[model]: the last primary key the table's sequence gave out
    users,     \* the auth_user table, in order of creation
    session,   \* the caller's session: Anonymous or the logged-in username
    last,      \* the request handled last: [action, status, codes]
    ledger,    \* history: per URL prefix, what the caller created and last wrote
    fresh,     \* history: per URL prefix, created rows not written since, with payload
    deleted,   \* history: per URL prefix, the identities whose DELETE succeeded
    registered \* history: the input of each successful registration, in order

vars == << db, seq, users, session, last, ledger, fresh, deleted, registered >>

State == [db |-> db, seq |-> seq, users |-> users, session |-> session]

Resources == {"tasks", "spends"}
Empty == [k \in {} |-> NoBody]

Response(status, body) == [status |-> status, body |-> body]

(* ----------------------- ModelViewSet (views.py) ----------------------- *)

\* APIView.check_permissions
check_permissions(view, st) ==
    \A p \in view.permission_classes :
        \/ p = "AllowAny"
        \/ p = "IsAuthenticated" /\ st.session # Anonymous

Forbidden(st) == [st |-> st, response |-> Response(403, NoBody)]
NotFound(st) == [st |-> st, response |-> Response(404, NoBody)]
BadRequest(st, errs) == [st |-> st, response |-> Response(400, errs)]

\* get_object: look the primary key up in the view's queryset.
exists(view, pk, st) == pk \in DOMAIN st.db[view.queryset]
get_object(view, pk, st) == st.db[view.queryset][pk]

\* ListModelMixin.list
list(view, req, st) ==
    LET ser == view.serializer_class
        rows == st.db[view.queryset]
    IN  IF ~check_permissions(view, st) THEN Forbidden(st)
        ELSE [st |-> st,
              response |-> Response(200,
                  {to_representation(ser, pk, rows[pk]) : pk \in DOMAIN rows})]

\* RetrieveModelMixin.retrieve
retrieve(view, req, st) ==
    LET ser == view.serializer_class
        pk == req.path.pk[1]
    IN  IF ~check_permissions(view, st) THEN Forbidden(st)
        ELSE IF ~exists(view, pk, st) THEN NotFound(st)
        ELSE [st |-> st,
              response |-> Response(200,
                  to_representation(ser, pk, get_object(view, pk, st)))]

\* CreateModelMixin.create: validate, save a new row, answer 201 with it.
create(view, req, st) ==
    LET ser == view.serializer_class
        pk == st.seq[ser.model] + 1
        row == ModelSerializer_create(ser, validated_data(ser, req.data))
    IN  IF ~check_permissions(view, st) THEN Forbidden(st)
        ELSE IF ~is_valid(ser, req.data, FALSE, st)
        THEN BadRequest(st, errors(ser, req.data, FALSE, st))
        ELSE [st |-> [st EXCEPT !.db[ser.model] = (pk :> row) @@ @,
                                !.seq[ser.model] = pk],
              response |-> Response(201, to_representation(ser, pk, row))]

\* UpdateModelMixin.update / partial_update
update(view, req, st, partial) ==
    LET ser == view.serializer_class
        pk == req.path.pk[1]
        row == ModelSerializer_update(get_object(view, pk, st),
                                      validated_data(ser, req.data))
    IN  IF ~check_permissions(view, st) THEN Forbidden(st)
        ELSE IF ~exists(view, pk, st) THEN NotFound(st)
        ELSE IF ~is_valid(ser, req.data, partial, st)
        THEN BadRequest(st, errors(ser, req.data, partial, st))
        ELSE [st |-> [st EXCEPT !.db[view.queryset][pk] = row],
              response |-> Response(200, to_representation(ser, pk, row))]

\* Mutant: a destroy that answers 204 and leaves the row in place.
destroy_KeepsRow(view, req, st) ==
    LET pk == req.path.pk[1]
    IN  IF ~check_permissions(view, st) THEN Forbidden(st)
        ELSE IF ~exists(view, pk, st) THEN NotFound(st)
        ELSE [st |-> st, response |-> Response(204, NoBody)]

\* DestroyModelMixin.destroy
destroy(view, req, st) ==
    LET pk == req.path.pk[1]
        rows == st.db[view.queryset]
    IN  IF ~check_permissions(view, st) THEN Forbidden(st)
        ELSE IF ~exists(view, pk, st) THEN NotFound(st)
        ELSE [st |-> [st EXCEPT !.db[view.queryset] =
                                    [k \in DOMAIN rows \ {pk} |-> rows[k]]],
              response |-> Response(204, NoBody)]

\* APIRootView.get: the index of the registered prefixes.
api_root(req, st) ==
    [st |-> st,
     response |-> Response(200, {router[i].prefix : i \in 1..Len(router)})]

(* ------------------------- the three auth views ------------------------ *)

\* RegisterView.post: validate with RegisterSerializer, save, answer 201 with
\* the serializer's data; an error raised by the save is answered 500.
RegisterView_post(view, req, st) ==
    LET ser == view.serializer_class
        saved == RegisterSerializer_create(validated_data(ser, req.data), st)
    IN  IF ~is_valid(ser, req.data, FALSE, st)
        THEN BadRequest(st, errors(ser, req.data, FALSE, st))
        ELSE IF saved.error # ""
        THEN [st |-> st, response |-> Response(500, NoBody)]
        ELSE [st |-> saved.st,
              response |-> Response(201,
                  to_representation(ser, Len(saved.st.users), saved.user))]

\* LoginView.post: authenticate and open the session.
LoginView_post(view, req, st) ==
    IF \E i \in 1..Len(st.users) :
           /\ st.users[i].username = req.data["username"]
           /\ check_password(req.data["password"], st.users[i].password)
    THEN [st |-> [st EXCEPT !.session = req.data["username"]],
          response |-> Response(200, NoBody)]
    ELSE [st |-> st, response |-> Response(401, NoBody)]

\* LogoutView.post: close the session.
LogoutView_post(view, req, st) ==
    [st |-> [st EXCEPT !.session = Anonymous], response |-> Response(200, NoBody)]

(* ------------------------------ requests ------------------------------- *)

Collection(prefix) == [prefix |-> prefix, pk |-> << >>]
Item(prefix, pk) == [prefix |-> prefix, pk |-> <<pk>>]

Prefixes == {"", "tasks", "spends", "register", "login", "logout"}
Paths ==
    {Collection(p) : p \in Prefixes} \cup {Item(p, i) : p \in Resources, i \in Pks}
    \cup {Item("register", 1)}

\* JSON bodies for Task/Spend: any subset of the columns, with or without "id".
Payloads ==
    LET cols == {p \in UNION {[D -> Values] : D \in SUBSET Fields("Task")} :
                    \A f \in DOMAIN p \cap OptionalFields("Task") : p[f] \in OptionalValues}
    IN  cols \cup {("id" :> 1) @@ p : p \in cols}

RegisterBodies ==
    {b \in UNION {[D -> Usernames \cup Emails \cup Passwords] : D \in SUBSET UserFields} :
        /\ "username" \in DOMAIN b => b["username"] \in Usernames
        /\ "email" \in DOMAIN b => b["email"] \in Emails
        /\ "password" \in DOMAIN b => b["password"] \in Passwords}

LoginBodies == [username : Usernames, password : Passwords]

Bodies(method, path) ==
    LET h == handler(method, path)
    IN  IF h.action \in {"create", "update", "partial_update"} THEN Payloads
        ELSE IF h.action = "post" /\ h.view = "RegisterView" THEN RegisterBodies
        ELSE IF h.action = "post" /\ h.view = "LoginView" THEN LoginBodies
        ELSE {NoBody}

Request(m, p, d) == [method |-> m, path |-> p, data |-> d]

Requests ==
    UNION {{Request(m, p, d) : d \in Bodies(m, p)} : m \in Methods, p \in Paths}

Handler(req) == handler(req.method, req.path)
View(req) == resolve(req.path).view

\* The outcome of handling req in state st: the new state and the response.
Serve(req, st) ==
    LET h == Handler(req)
        a == h.action
    IN  CASE a = "list" -> list(View(req), req, st)
          [] a = "retrieve" -> retrieve(View(req), req, st)
          [] a = "create" -> create(View(req), req, st)
          [] a = "update" -> update(View(req), req, st, FALSE)
          [] a = "partial_update" -> update(View(req), req, st, TRUE)
          [] a = "destroy" -> destroy(View(req), req, st)
          [] a = "get" -> api_root(req, st)
          [] a = "post" /\ h.view = "RegisterView" -> RegisterView_post(View(req), req, st)
          [] a = "post" /\ h.view = "LoginView" -> LoginView_post(View(req), req, st)
          [] a = "post" /\ h.view = "LogoutView" -> LogoutView_post(View(req), req, st)
          [] a = "method_not_allowed" -> [st |-> st, response |-> Response(405, NoBody)]
          [] OTHER -> NotFound(st)

(* ------------------------- the caller's history ------------------------ *)

\* The record the caller expects after writing payload p over record old.
Written(old, p) == [f \in DOMAIN old |-> IF f \in DOMAIN p THEN p[f] ELSE old[f]]
Blank(res) == [f \in Fields(IF res = "tasks" THEN "Task" ELSE "Spend") |-> ""]
Without(f, k) == [j \in DOMAIN f \ {k} |-> f[j]]

IsCreated(req, resp) ==
    req.method = "POST" /\ req.path.prefix \in Resources /\ req.path.pk = << >>
    /\ resp.status = 201
IsWritten(req, resp) ==
    req.method \in {"PUT", "PATCH"} /\ req.path.prefix \in Resources
    /\ req.path.pk # << >> /\ resp.status = 200
IsDeleted(req, resp) ==
    req.method = "DELETE" /\ req.path.prefix \in Resources
    /\ req.path.pk # << >> /\ resp.status = 204

IsRegistered(req, resp) ==
    req.method = "POST" /\ req.path = Collection("register") /\ resp.status = 201

Observe(req, resp) ==
    LET res == req.path.prefix
    IN  IF IsCreated(req, resp)
        THEN LET pk == resp.body["id"]
             IN  /\ ledger' = [ledger EXCEPT ![res] = (pk :> Written(Blank(res), req.data)) @@ @]
                 /\ fresh' = [fresh EXCEPT ![res] = (pk :> Without(req.data, "id")) @@ @]
                 /\ deleted' = deleted
        ELSE IF IsWritten(req, resp)
        THEN LET pk == req.path.pk[1]
             IN  /\ ledger' = [ledger EXCEPT ![res] =
                        IF pk \in DOMAIN @
                        THEN [@ EXCEPT ![pk] = Written(@, req.data)] ELSE @]
                 /\ fresh' = [fresh EXCEPT ![res] = Without(@, pk)]
                 /\ deleted' = deleted
        ELSE IF IsDeleted(req, resp)
        THEN LET pk == req.path.pk[1]
             IN  /\ ledger' = [ledger EXCEPT ![res] = Without(@, pk)]
                 /\ fresh' = [fresh EXCEPT ![res] = Without(@, pk)]
                 /\ deleted' = [deleted EXCEPT ![res] = @ \cup {pk}]
        ELSE UNCHANGED << ledger, fresh, deleted >>

(* ------------------------------- actions ------------------------------- *)

Created(st) == st.seq["Task"] + st.seq["Spend"] + Len(st.users)

\* The explored runs stay within the creation bound.
InBounds(out) == Created(out.st) <= MaxCreated

\* The outcome of one request becomes the new state.
Commit(req, out) ==
    \E h \in {Handler(req)} :
        /\ db' = out.st.db
        /\ seq' = out.st.seq
        /\ users' = out.st.users
        /\ session' = out.st.session
        /\ last' = [action |-> IF h.action = "post" THEN h.view ELSE h.action,
                    status |-> out.response.status,
                    codes |-> IF out.response.status = 400
                              THEN {e[2] : e \in out.response.body} ELSE {}]
        /\ Observe(req, out.response)
        /\ registered' = IF IsRegistered(req, out.response)
                         THEN Append(registered, req.data) ELSE registered

Init ==
    /\ db = [m \in Models |-> Empty]
    /\ seq = [m \in Models |-> 0]
    /\ users = << >>
    /\ session = Anonymous
    /\ last = [action |-> "", status |-> 0, codes |-> {}]
    /\ ledger = [r \in Resources |-> Empty]
    /\ fresh = [r \in Resources |-> Empty]
    /\ deleted = [r \in Resources |-> {}]
    /\ registered = << >>

Routed(action) == {req \in Requests : Handler(req).action = action}
Posted(view) == {req \in Routed("post") : Handler(req).view = view}

ListRequests == Routed("list")
RetrieveRequests == Routed("retrieve")
CreateRequests == Routed("create")
UpdateRequests == Routed("update")
PartialUpdateRequests == Routed("partial_update")
DestroyRequests == Routed("destroy")
ApiRootRequests == Routed("get")
RegisterRequests == Posted("RegisterView")
LoginRequests == Posted("LoginView")
LogoutRequests == Posted("LogoutView")
RejectedRequests == Routed("not_found") \cup Routed("method_not_allowed")

List ==
    \E req \in ListRequests :
        \E out \in {list(View(req), req, State)} : InBounds(out) /\ Commit(req, out)

Retrieve ==
    \E req \in RetrieveRequests :
        \E out \in {retrieve(View(req), req, State)} : InBounds(out) /\ Commit(req, out)

Create ==
    \E req \in CreateRequests :
        \E out \in {create(View(req), req, State)} : InBounds(out) /\ Commit(req, out)

Update ==
    \E req \in UpdateRequests :
        \E out \in {update(View(req), req, State, FALSE)} : InBounds(out) /\ Commit(req, out)

PartialUpdate ==
    \E req \in PartialUpdateRequests :
        \E out \in {update(View(req), req, State, TRUE)} : InBounds(out) /\ Commit(req, out)

Destroy ==
    \E req \in DestroyRequests :
        \E out \in {destroy(View(req), req, State)} : InBounds(out) /\ Commit(req, out)

ApiRoot ==
    \E req \in ApiRootRequests :
        \E out \in {api_root(req, State)} : InBounds(out) /\ Commit(req, out)

Register ==
    \E req \in RegisterRequests :
        \E out \in {RegisterView_post(View(req), req, State)} : InBounds(out) /\ Commit(req, out)

Login ==
    \E req \in LoginRequests :
        \E out \in {LoginView_post(View(req), req, State)} : InBounds(out) /\ Commit(req, out)

Logout ==
    \E req \in LogoutRequests :
        \E out \in {LogoutView_post(View(req), req, State)} : InBounds(out) /\ Commit(req, out)

Rejected ==
    \E req \in RejectedRequests :
        \E out \in {Serve(req, State)} : InBounds(out) /\ Commit(req, out)

Next ==
    \/ List
    \/ Retrieve
    \/ Create
    \/ Update
    \/ PartialUpdate
    \/ Destroy
    \/ ApiRoot
    \/ Register
    \/ Login
    \/ Logout
    \/ Rejected

Spec == Init /\ [][Next]_vars

(* ------------------------- routing, step by step ------------------------ *)
\* The same server with the request line kept: each step resolves one request
\* and records its method and path, the view and action that handled it, and
\* the queryset and serializer model of that view.

RoutingPayloads == {p \in Payloads : DOMAIN p = Fields("Task")}
RoutingRegisterBodies ==
    {b \in RegisterBodies : DOMAIN b = UserFields /\ b["email"] = "a@x.org"}

RoutingRequests ==
    {req \in Requests :
        req.data \in {NoBody} \cup RoutingPayloads \cup RoutingRegisterBodies \cup LoginBodies}

Handled(req) ==
    LET m == resolve(req.path)
        h == Handler(req)
    IN  [method |-> req.method, path |-> req.path,
         view |-> h.view, action |-> h.action,
         queryset |-> IF m.kind = "viewset" THEN m.view.queryset ELSE "",
         model |-> IF m.kind = "viewset" THEN m.view.serializer_class.model ELSE ""]

InitRouting ==
    /\ db = [m \in Models |-> Empty]
    /\ seq = [m \in Models |-> 0]
    /\ users = << >>
    /\ session = Anonymous
    /\ last = [method |-> "", path |-> Collection(""), view |-> "", action |-> "",
               queryset |-> "", model |-> ""]
    /\ ledger = [r \in Resources |-> Empty]
    /\ fresh = [r \in Resources |-> Empty]
    /\ deleted = [r \in Resources |-> {}]
    /\ registered = << >>

Route ==
    \E req \in RoutingRequests :
        \E out \in {Serve(req, State)} :
            /\ InBounds(out)
            /\ db' = out.st.db
            /\ seq' = out.st.seq
            /\ users' = out.st.users
            /\ session' = out.st.session
            /\ last' = Handled(req)
            /\ Observe(req, out.response)
            /\ registered' = IF IsRegistered(req, out.response)
                             THEN Append(registered, req.data) ELSE registered

SpecRouting == InitRouting /\ [][Route]_vars

(* ------------------------------- claims -------------------------------- *)

Get(path) == Serve(Request("GET", path, NoBody), State).response
ModelOf(res) == IF res = "tasks" THEN "Task" ELSE "Spend"
Acted(action, status) == last.action = action /\ last.status = status

C2_DeletedStaysGone ==
    \A res \in Resources : \A pk \in deleted[res] :
        Get(Item(res, pk)).status = 404

\* C2 witness: a record was deleted, another of the same type was created after
\* it, and a retrieve has just been answered 404.
C2_Witness ==
    \E res \in Resources : \E pk \in deleted[res] :
        /\ \E k \in DOMAIN ledger[res] : k > pk
        /\ Acted("retrieve", 404)

\* C3: the list of each resource is exactly the records created under it and
\* not deleted, each as last written, drawn from that resource's own table.
C3_ListIsLiveRecords ==
    \A res \in Resources :
        LET r == Get(Collection(res))
        IN  /\ r.status = 200
            /\ r.body = {("id" :> pk) @@ ledger[res][pk] : pk \in DOMAIN ledger[res]}
            /\ {row["id"] : row \in r.body} = DOMAIN db[ModelOf(res)]

\* C3 witness: a Task and a Spend are both live, the Task was updated after its
\* creation, and a list has just been served.
C3_Witness ==
    /\ DOMAIN ledger["tasks"] # {} /\ DOMAIN ledger["spends"] # {}
    /\ DOMAIN fresh["tasks"] = {}
    /\ ledger["tasks"] # ledger["spends"]
    /\ Acted("list", 200)

\* C4: a PATCH of an existing record sets exactly the supplied columns and
\* leaves the other columns, the identity and every other record as they were;
\* a PUT that omits a required column is refused with 400 and changes nothing.
C4_PatchFrameAndPutRequired ==
    /\ \A req \in PartialUpdateRequests :
           LET before == Get(req.path)
               out == Serve(req, State)
               after == Serve(Request("GET", req.path, NoBody), out.st).response
               m == ModelOf(req.path.prefix)
           IN  before.status = 200 =>
                   /\ out.response.status = 200
                   /\ after.status = 200
                   /\ DOMAIN after.body = DOMAIN before.body
                   /\ after.body["id"] = before.body["id"]
                   /\ \A f \in Fields(m) :
                          /\ f \in DOMAIN after.body
                          /\ after.body[f] = IF f \in DOMAIN req.data
                                             THEN req.data[f] ELSE before.body[f]
                   /\ \A k \in DOMAIN db[m] \ {req.path.pk[1]} :
                          out.st.db[m][k] = db[m][k]
    /\ \A req \in UpdateRequests :
           LET before == Get(req.path)
               out == Serve(req, State)
               m == ModelOf(req.path.prefix)
           IN  (before.status = 200 /\ ~(RequiredFields(m) \subseteq DOMAIN req.data)) =>
                   /\ out.response.status = 400
                   /\ out.st = State

\* C4 witness: a PATCH has just succeeded on a record that still differs from
\* its creation payload in one column only.
C4_Witness ==
    /\ Acted("partial_update", 200)
    /\ \E res \in Resources : \E pk \in DOMAIN ledger[res] :
           /\ pk \notin DOMAIN fresh[res]
           /\ ledger[res][pk]["optional_field"] = "y"
           /\ ledger[res][pk]["required_field"] = "x"

\* C4 second witness case: a PUT without the required column was refused.
C4_WitnessPut ==
    /\ Acted("update", 400)
    /\ "required" \in last.codes

\* C5: no two accounts share a username; a registration whose username is
\* that of an account is refused as invalid, and one whose username was
\* registered before (or normalises to a taken name) is refused too; a refused
\* registration leaves the accounts as they were.
C5_UsernameUnique ==
    /\ \A i, j \in 1..Len(users) : i # j => users[i].username # users[j].username
    /\ \A req \in RegisterRequests :
           LET out == Serve(req, State)
               taken == "username" \in DOMAIN req.data
                        /\ \E i \in 1..Len(users) : users[i].username = req.data["username"]
               again == "username" \in DOMAIN req.data
                        /\ \E i \in 1..Len(registered) :
                               registered[i]["username"] = req.data["username"]
           IN  /\ taken => out.response.status = 400 /\ <<"username", "unique">> \in out.response.body
               /\ (taken \/ again) => out.response.status \in {400, 500} /\ out.st = State

\* C5 witness: with an account registered, a registration has just been refused
\* because its username is taken.
C5_Witness ==
    /\ Len(users) >= 1
    /\ Acted("RegisterView", 400)
    /\ "unique" \in last.codes

\* C6: the serialized form of every account holds username and email only, and
\* every account stores the hash of the password it was registered with, never
\* the password itself.
C6_PasswordWriteOnly ==
    /\ Len(registered) = Len(users)
    /\ \A i \in 1..Len(users) :
           LET out == to_representation(RegisterSerializer, i, users[i])
           IN  /\ DOMAIN out = {"username", "email"}
               /\ out["username"] = users[i].username
               /\ out["email"] = users[i].email
               /\ users[i].password = make_password(registered[i]["password"])
               /\ users[i].password # registered[i]["password"]

\* C6 witness: an account has just been registered.
C6_Witness == Acted("RegisterView", 201) /\ Len(users) >= 1

ViewSetOf(res) == IF res = "tasks" THEN "TaskViewSet" ELSE "SpendViewSet"
AuthViewOf(route) ==
    CASE route = "register" -> "RegisterView"
      [] route = "login" -> "LoginView"
      [] route = "logout" -> "LogoutView"

\* C7: the routing table.  Collection paths list on GET and create on POST; item
\* paths retrieve, update, partially update and delete on GET, PUT, PATCH and
\* DELETE; each prefix reaches its own resource's view set, queryset and
\* serializer; register, login and logout reach their own views on POST.
C7_RoutingTable ==
    LET m == last.method
        path == last.path
    IN  /\ \A res \in Resources :
               /\ path = Collection(res) =>
                      /\ last.view = ViewSetOf(res)
                      /\ last.action = CASE m = "GET" -> "list"
                                         [] m = "POST" -> "create"
                                         [] OTHER -> "method_not_allowed"
               /\ (path.prefix = res /\ path.pk # << >>) =>
                      /\ last.view = ViewSetOf(res)
                      /\ last.action = CASE m = "GET" -> "retrieve"
                                         [] m = "PUT" -> "update"
                                         [] m = "PATCH" -> "partial_update"
                                         [] m = "DELETE" -> "destroy"
                                         [] OTHER -> "method_not_allowed"
               /\ path.prefix = res =>
                      /\ last.queryset = ModelOf(res)
                      /\ last.model = ModelOf(res)
                      /\ \A r \in Resources \ {res} :
                             last.view # ViewSetOf(r) /\ last.queryset # ModelOf(r)
        /\ \A route \in {"register", "login", "logout"} :
               (path = Collection(route) /\ m = "POST") =>
                   /\ last.view = AuthViewOf(route)
                   /\ last.action = "post"
                   /\ \A r \in {"register", "login", "logout"} \ {route} :
                          last.view # AuthViewOf(r)

\* C7 witness: a DELETE on the item path of a live Spend has just been handled
\* by SpendViewSet.destroy, after a registration and a login.
C7_Witness ==
    /\ last.method = "DELETE" /\ last.path.prefix = "spends"
    /\ deleted["spends"] # {}
    /\ session # Anonymous

CrudRequests ==
    ListRequests \cup RetrieveRequests \cup CreateRequests \cup UpdateRequests
    \cup PartialUpdateRequests \cup DestroyRequests

C10_StoresIndependent ==
    \A req \in Requests :
        LET out == Serve(req, State)
            prefix == req.path.prefix
        IN  /\ prefix = "tasks" =>
                   /\ out.st.db["Spend"] = db["Spend"]
                   /\ out.st.seq["Spend"] = seq["Spend"]
                   /\ out.st.users = users
            /\ prefix = "spends" =>
                   /\ out.st.db["Task"] = db["Task"]
                   /\ out.st.seq["Task"] = seq["Task"]
                   /\ out.st.users = users
            /\ prefix = "register" =>
                   /\ out.st.db = db
                   /\ out.st.seq = seq
            /\ req.method = "GET" => out.st = State

\* C10 witness: with a Spend live and an account registered, a Task request has
\* just failed; the Spend and the account are still there.
C10_Witness ==
    /\ DOMAIN db["Spend"] # {}
    /\ Len(users) >= 1
    /\ Acted("update", 404)

=============================================================================
